---- MODULE Spec2Model ----
(***************************************************************************)
(* A model of licensedcode/models.py: the Rule entity (tokens, relevance,  *)
(* the two cached Thresholds tuples, small) and the loading of License and *)
(* Rule metadata records.                                                  *)
(*                                                                         *)
(* One Rule object is under observation.  Its attributes are the variables *)
(* named as in the source; `op` is the last method that was called on it   *)
(* and `ret`/`ret_small` what that call returned.                          *)
(***************************************************************************)
EXTENDS Integers, Sequences, FiniteSets, TLC

VARIABLES
    kind,                  \* "Rule" or "SpdxRule": the class of the object
    is_false_positive,
    is_negative,
    minimum_coverage,
    relevance,
    has_stored_relevance,
    text,                  \* what Rule.text() returns, run-length encoded
    length,
    high_length,
    low_length,
    high_unique,
    low_unique,
    length_unique,
    _thresholds,           \* <<>> is None, <<t>> a cached Thresholds tuple
    _thresholds_unique,
    op,                    \* the last call: "new" once built, "tokens", "thresholds", ...
    ret,                   \* <<t>>: the Thresholds tuple the last call returned
    ret_small,             \* what the last small() call returned
    hit,                   \* the last thresholds call found its cache filled
    mc_first,              \* minimum_coverage at the first thresholds request, -1 before
    mc_before,             \* minimum_coverage when the last call began
    nset,                  \* number of attribute assignments made from outside
    data,                  \* the metadata mapping saneyaml.load returned
    loaded,                \* [cls, result]: which class loaded data, and how it ended
    lic,                   \* the License object that License.load populates
    dumped,                \* the License object that dump() has written out
    licenses,              \* the mapping key -> License that validate() is given
    validated,             \* <<>>, or <<r>>: how the validate() call ended
    license_files,         \* the license directory: path -> content of the file
    with_deprecated,       \* the argument of load_licenses
    pc,                    \* the function of the corpus loader that runs, or how it ended
    raised,                \* <<>>, or <<e>>: the exception the loader has raised
    rule_files,            \* the rule directory: path -> content of the file
    scan,                  \* the local variables of the loop that runs
    rules,                 \* the rules load_rules has yielded, in order
    text_read,             \* <<>>, or <<c>>: a call of text() on a rule and its end
    delivered              \* the rules the consumer of get_rules has received

vars == << kind, is_false_positive, is_negative, minimum_coverage, relevance,
           has_stored_relevance, text, length, high_length, low_length,
           high_unique, low_unique, length_unique, _thresholds,
           _thresholds_unique, op, ret, ret_small, hit, mc_first, mc_before, nset,
           data, loaded, lic, dumped, licenses, validated, license_files,
           with_deprecated, pc, raised, rule_files, scan, rules, text_read,
           delivered >>

load_vars == << data, loaded, lic >>

\* the state of the license and rule directories and of what is made of them
corpus_vars == << dumped, licenses, validated, license_files, with_deprecated,
                 pc, raised, rule_files, scan, rules, text_read, delivered >>

\* the rule directory and what is made of it
rules_vars == << rule_files, scan, rules, text_read, delivered >>

\* the state of the corpus loader
loader_vars == << license_files, with_deprecated, pc, raised, rule_files, scan,
                 rules, text_read, delivered >>

stat_vars == << length, high_length, low_length, high_unique, low_unique,
                length_unique >>

Min(a, b) == IF a <= b THEN a ELSE b

\* a Rule exists: its construction has ended without an exception
Alive == op \notin {"constructing", "failed", "license"}

(***************************************************************************)
(* Rule text.  A text is a sequence of runs [ch, n]: n >= 1 repetitions of *)
(* the unit ch.  The units are a space, a newline, the three URL schemes   *)
(* tokens() looks for, an upper-case scheme, and "w." (a one-letter word   *)
(* and a full stop: one token, two characters, no whitespace).             *)
(***************************************************************************)
Run(c, n) == [ch |-> c, n |-> n]

Width(c) ==
    CASE c = "http://"  -> 7
      [] c = "https://" -> 8
      [] c = "ftp://"   -> 6
      [] c = "HTTP://"  -> 7
      [] c = "w."       -> 2
      [] OTHER          -> 1

IsSpace(c) == c \in {" ", "\n"}

RECURSIVE lstrip(_)
lstrip(t) ==
    IF t = <<>> THEN t
    ELSE IF IsSpace(Head(t).ch) THEN lstrip(Tail(t)) ELSE t

RECURSIVE rstrip(_)
rstrip(t) ==
    IF t = <<>> THEN t
    ELSE IF IsSpace(t[Len(t)].ch) THEN rstrip(SubSeq(t, 1, Len(t) - 1)) ELSE t

\* str.strip()
strip(t) == rstrip(lstrip(t))

\* str.startswith(prefixes): every unit is atomic, so a text starts with a
\* scheme exactly when its first unit is that scheme
startswith(t, prefixes) == t # <<>> /\ Head(t).ch \in prefixes

\* t[:k]: the first k characters; a unit cut in the middle is dropped, which
\* loses no newline since a newline is one character wide
RECURSIVE slice(_, _)
slice(t, k) ==
    IF t = <<>> \/ k <= 0 THEN <<>>
    ELSE LET r == Head(t)
             w == Width(r.ch)
         IN IF w * r.n <= k
            THEN <<r>> \o slice(Tail(t), k - w * r.n)
            ELSE IF k \div w > 0 THEN << Run(r.ch, k \div w) >> ELSE <<>>

\* c in t
contains(t, c) == \E i \in 1..Len(t) : t[i].ch = c

BARE_URL_WINDOW == 1000

URL_SCHEMES == {"http://", "https://", "ftp://"}

is_bare_url_unstripped(t) ==
    startswith(t, URL_SCHEMES) /\ ~ contains(slice(t, BARE_URL_WINDOW), "\n")

\* the bare URL test of Rule.tokens, on the stripped text
is_bare_url(t) ==
    startswith(strip(t), URL_SCHEMES)
        /\ ~ contains(slice(strip(t), BARE_URL_WINDOW), "\n")

\* the number of tokens query_tokenizer yields: one per non-space unit
RECURSIVE query_tokenizer_count(_)
query_tokenizer_count(t) ==
    IF t = <<>> THEN 0
    ELSE (IF IsSpace(Head(t).ch) THEN 0 ELSE Head(t).n)
            + query_tokenizer_count(Tail(t))

(***************************************************************************)
(* Rule.compute_relevance                                                  *)
(***************************************************************************)
threshold == 18

\* round((1 / threshold) * 100, 2), in hundredths: 5.56 is 556
relevance_of_one_word_dropping_digits == (100 * 100) \div threshold

relevance_of_one_word == (2 * 100 * 100 + threshold) \div (2 * threshold)

\* int(length * relevance_of_one_word)
computed(len) == (len * relevance_of_one_word) \div 100

compute_relevance_zero_for_special(len) ==
    IF has_stored_relevance THEN relevance
    ELSE IF is_false_positive THEN 0
    ELSE IF is_negative THEN 0
    ELSE IF len >= threshold THEN 100
    ELSE Min(100, computed(len))

\* the relevance of self once compute_relevance has run with self.length = len
compute_relevance(len) ==
    IF has_stored_relevance THEN relevance
    ELSE IF is_false_positive THEN 100
    ELSE IF is_negative THEN 100
    ELSE IF len >= threshold THEN 100
    ELSE Min(100, computed(len))

(***************************************************************************)
(* Rule.small, SpdxRule.small                                              *)
(***************************************************************************)
SMALL_RULE == 15

Rule_small(len, mc) == len < SMALL_RULE \/ mc = 100

SpdxRule_small == FALSE

small_not_overridden(len, mc) == Rule_small(len, mc)

\* self.small(), dispatched on the class of self
small(len, mc) == IF kind = "SpdxRule" THEN SpdxRule_small ELSE Rule_small(len, mc)

(***************************************************************************)
(* Thresholds, Rule.thresholds, Rule.thresholds_unique                     *)
(***************************************************************************)
\* from licensedcode import MIN_MATCH_LENGTH, MIN_MATCH_HIGH_LENGTH
MIN_MATCH_LENGTH == 4

MIN_MATCH_HIGH_LENGTH == 3

Thresholds(high_len, low_len, len, is_small, min_high, min_len) ==
    [high_len |-> high_len, low_len |-> low_len, length |-> len,
     small |-> is_small, min_high |-> min_high, min_len |-> min_len]

is_cached_never(c) == FALSE

\* `if not self._thresholds`: None is falsy, a six-field tuple is truthy
is_cached(c) == c # <<>>

thresholds_computed_reordered ==
    LET s0 == IF length > 200
              THEN [mh |-> high_length \div 10, ml |-> length \div 10,
                    mc |-> minimum_coverage]
              ELSE [mh |-> Min(high_length, MIN_MATCH_HIGH_LENGTH),
                    ml |-> MIN_MATCH_LENGTH, mc |-> minimum_coverage]
        s1 == IF length < 3
              THEN [mh |-> high_length, ml |-> length, mc |-> 100] ELSE s0
        s2 == IF length < 10
              THEN [mh |-> high_length, ml |-> length, mc |-> 80] ELSE s1
        s3 == IF length < 30 THEN [s2 EXCEPT !.ml = length \div 2] ELSE s2
        s4 == IF s3.mc = 100
              THEN [s3 EXCEPT !.mh = high_length, !.ml = length] ELSE s3
    IN [mc |-> s4.mc,
        t  |-> Thresholds(high_length, low_length, length,
                          small(length, s4.mc), s4.mh, s4.ml)]

\* The body of thresholds() when nothing is cached: the cascade of ifs over
\* min_high (mh), min_len (ml) and self.minimum_coverage (mc), then the tuple.
thresholds_computed ==
    LET s0 == IF length > 200
              THEN [mh |-> high_length \div 10, ml |-> length \div 10,
                    mc |-> minimum_coverage]
              ELSE [mh |-> Min(high_length, MIN_MATCH_HIGH_LENGTH),
                    ml |-> MIN_MATCH_LENGTH, mc |-> minimum_coverage]
        s1 == IF length < 30 THEN [s0 EXCEPT !.ml = length \div 2] ELSE s0
        s2 == IF length < 10
              THEN [mh |-> high_length, ml |-> length, mc |-> 80] ELSE s1
        s3 == IF length < 3
              THEN [mh |-> high_length, ml |-> length, mc |-> 100] ELSE s2
        s4 == IF s3.mc = 100
              THEN [s3 EXCEPT !.mh = high_length, !.ml = length] ELSE s3
    IN [mc |-> s4.mc,
        t  |-> Thresholds(high_length, low_length, length,
                          small(length, s4.mc), s4.mh, s4.ml)]

\* The body of thresholds_unique() when nothing is cached.
thresholds_unique_computed ==
    LET highu == IF high_unique \div 2 # 0 THEN high_unique \div 2 ELSE high_unique
        s0 == IF length > 200
              THEN [mh |-> high_unique \div 10, ml |-> length \div 10]
              ELSE [mh |-> Min(highu, MIN_MATCH_HIGH_LENGTH),
                    ml |-> MIN_MATCH_LENGTH]
        s1 == IF length < 20 THEN [mh |-> high_unique, ml |-> high_unique] ELSE s0
        s2 == IF length < 10
              THEN [mh |-> high_unique,
                    ml |-> IF length_unique < 2 THEN length_unique
                           ELSE length_unique - 1]
              ELSE s1
        s3 == IF length < 5 THEN [mh |-> high_unique, ml |-> length_unique] ELSE s2
        s4 == IF minimum_coverage = 100
              THEN [mh |-> high_unique, ml |-> length_unique] ELSE s3
    IN Thresholds(high_unique, low_unique, length_unique,
                  small(length, minimum_coverage), s4.mh, s4.ml)

(***************************************************************************)
(* The calls on the Rule.                                                  *)
(***************************************************************************)
\* list(rule.tokens()): the generator run to its end
CallTokens ==
    /\ Alive
    /\ minimum_coverage' = IF is_bare_url(text) THEN 100 ELSE minimum_coverage
    /\ length' = query_tokenizer_count(text)
    /\ relevance' = compute_relevance(query_tokenizer_count(text))
    /\ op' = "tokens"
    /\ mc_before' = minimum_coverage
    /\ UNCHANGED << kind, is_false_positive, is_negative, has_stored_relevance,
                    text, high_length, low_length, high_unique, low_unique,
                    length_unique, _thresholds, _thresholds_unique, ret,
                    ret_small, hit, mc_first, nset >>
    /\ UNCHANGED load_vars
    /\ UNCHANGED corpus_vars

\* rule.compute_relevance()
CallComputeRelevance ==
    /\ Alive
    /\ relevance' = compute_relevance(length)
    /\ op' = "compute_relevance"
    /\ mc_before' = minimum_coverage
    /\ UNCHANGED << kind, is_false_positive, is_negative, minimum_coverage,
                    has_stored_relevance, text, _thresholds, _thresholds_unique,
                    ret, ret_small, hit, mc_first, nset >>
    /\ UNCHANGED stat_vars
    /\ UNCHANGED load_vars
    /\ UNCHANGED corpus_vars

\* rule.small()
CallSmall ==
    /\ Alive
    /\ ret_small' = small(length, minimum_coverage)
    /\ op' = "small"
    /\ mc_before' = minimum_coverage
    /\ UNCHANGED << kind, is_false_positive, is_negative, minimum_coverage,
                    relevance, has_stored_relevance, text, _thresholds,
                    _thresholds_unique, ret, hit, mc_first, nset >>
    /\ UNCHANGED stat_vars
    /\ UNCHANGED load_vars
    /\ UNCHANGED corpus_vars

\* rule.thresholds()
CallThresholds ==
    /\ Alive
    /\ IF is_cached(_thresholds)
       THEN /\ UNCHANGED << _thresholds, minimum_coverage >>
            /\ ret' = _thresholds
            /\ hit' = TRUE
       ELSE /\ _thresholds' = << thresholds_computed.t >>
            /\ minimum_coverage' = thresholds_computed.mc
            /\ ret' = << thresholds_computed.t >>
            /\ hit' = FALSE
    /\ op' = "thresholds"
    /\ mc_before' = minimum_coverage
    /\ mc_first' = IF mc_first = -1 THEN minimum_coverage ELSE mc_first
    /\ UNCHANGED << kind, is_false_positive, is_negative, relevance,
                    has_stored_relevance, text, _thresholds_unique, ret_small,
                    nset >>
    /\ UNCHANGED stat_vars
    /\ UNCHANGED load_vars
    /\ UNCHANGED corpus_vars

\* rule.thresholds_unique()
CallThresholdsUnique ==
    /\ Alive
    /\ IF is_cached(_thresholds_unique)
       THEN /\ UNCHANGED _thresholds_unique
            /\ ret' = _thresholds_unique
            /\ hit' = TRUE
       ELSE /\ _thresholds_unique' = << thresholds_unique_computed >>
            /\ ret' = << thresholds_unique_computed >>
            /\ hit' = FALSE
    /\ op' = "thresholds_unique"
    /\ mc_before' = minimum_coverage
    /\ mc_first' = IF mc_first = -1 THEN minimum_coverage ELSE mc_first
    /\ UNCHANGED << kind, is_false_positive, is_negative, minimum_coverage,
                    relevance, has_stored_relevance, text, _thresholds,
                    ret_small, nset >>
    /\ UNCHANGED stat_vars
    /\ UNCHANGED load_vars
    /\ UNCHANGED corpus_vars

(***************************************************************************)
(* What the callers of a Rule do to it from outside: the index assigns the *)
(* token statistics (and a caller may assign minimum_coverage), and a      *)
(* caller clears a cached Thresholds tuple by assigning None.              *)
(***************************************************************************)
MaxSets == 2

SetAttrs(len, hl, lenu, hu, mc) ==
    /\ Alive
    /\ nset < MaxSets
    /\ nset' = nset + 1
    /\ length' = len
    /\ high_length' = hl
    /\ low_length' = len - hl
    /\ length_unique' = lenu
    /\ high_unique' = hu
    /\ low_unique' = lenu - hu
    /\ minimum_coverage' = mc
    /\ mc_before' = minimum_coverage
    /\ op' = "set"
    /\ UNCHANGED << kind, is_false_positive, is_negative, relevance,
                    has_stored_relevance, text, _thresholds, _thresholds_unique,
                    ret, ret_small, hit, mc_first >>
    /\ UNCHANGED load_vars
    /\ UNCHANGED corpus_vars

ClearThresholds ==
    /\ Alive
    /\ is_cached(_thresholds)
    /\ _thresholds' = <<>>
    /\ op' = "clear"
    /\ mc_before' = minimum_coverage
    /\ UNCHANGED << kind, is_false_positive, is_negative, minimum_coverage,
                    relevance, has_stored_relevance, text, _thresholds_unique,
                    ret, ret_small, hit, mc_first, nset >>
    /\ UNCHANGED stat_vars
    /\ UNCHANGED load_vars
    /\ UNCHANGED corpus_vars

ClearThresholdsUnique ==
    /\ Alive
    /\ is_cached(_thresholds_unique)
    /\ _thresholds_unique' = <<>>
    /\ op' = "clear"
    /\ mc_before' = minimum_coverage
    /\ UNCHANGED << kind, is_false_positive, is_negative, minimum_coverage,
                    relevance, has_stored_relevance, text, _thresholds,
                    ret, ret_small, hit, mc_first, nset >>
    /\ UNCHANGED stat_vars
    /\ UNCHANGED load_vars
    /\ UNCHANGED corpus_vars

(***************************************************************************)
(* Construction: Rule.__attrs_post_init__ and SpdxRule.__attrs_post_init__ *)
(* on the keyword arguments of a rule that has no data file.               *)
(***************************************************************************)
post_init_relevance(k, rel) == IF k = "SpdxRule" THEN 100 ELSE rel

post_init_has_stored_relevance(k, hsr, rel) ==
    IF k = "SpdxRule" THEN TRUE ELSE hsr \/ (rel # 0 /\ rel # 100)

\* no metadata file has been read
NoData == [k \in {} |-> ""]

\* License(key, src_dir) before load(): `set` holds what load() has bound
NewLicense(key) ==
    [key |-> key, set |-> NoData, minimum_coverage |-> 0, relevance |-> 100]

NotLoaded == [cls |-> "", result |-> "new"]

LoadIdle ==
    /\ data = NoData
    /\ loaded = NotLoaded
    /\ lic = NewLicense("")

\* no directory is being read
RulesIdle ==
    /\ rule_files = NoData
    /\ scan = [todo |-> {}]
    /\ rules = <<>>
    /\ text_read = <<>>
    /\ delivered = <<>>

LoaderIdle ==
    /\ license_files = NoData
    /\ with_deprecated = FALSE
    /\ pc = "idle"
    /\ raised = <<>>
    /\ RulesIdle

\* no License has been dumped and no directory is being read
CorpusIdle ==
    /\ dumped = NewLicense("")
    /\ licenses = NoData
    /\ validated = <<>>
    /\ LoaderIdle

\* the state after Rule(**kwargs) / SpdxRule(**kwargs)
Constructed(k, fp, neg, mc, rel, hsr, txt, len, hl, lenu, hu) ==
    /\ kind = k
    /\ is_false_positive = fp
    /\ is_negative = neg
    /\ minimum_coverage = mc
    /\ relevance = post_init_relevance(k, rel)
    /\ has_stored_relevance = post_init_has_stored_relevance(k, hsr, rel)
    /\ text = txt
    /\ length = len
    /\ high_length = hl
    /\ low_length = len - hl
    /\ length_unique = lenu
    /\ high_unique = hu
    /\ low_unique = lenu - hu
    /\ _thresholds = <<>>
    /\ _thresholds_unique = <<>>
    /\ op = "new"
    /\ ret = <<>>
    /\ ret_small = FALSE
    /\ hit = FALSE
    /\ mc_first = -1
    /\ mc_before = mc
    /\ nset = 0

(***************************************************************************)
(* Bounds and the values the specifications draw from.                    *)
(***************************************************************************)
\* the longest run of words of a sample text, apart from the runs that reach
\* the bare URL window
MaxWords == 20

\* runs of "w." that put a following newline just before, at, and just after
\* the end of the bare URL window, for the three schemes
WindowWords == { BARE_URL_WINDOW \div 2 - k : k \in 3..5 }

Leads == { <<>>, << Run(" ", 1), Run("\n", 1) >> }

Heads == { "http://", "https://", "ftp://", "HTTP://", "w." }

Bodies == { <<>> } \cup { << Run("w.", n) >> : n \in (1..MaxWords) \cup WindowWords }

Tails == { <<>>, << Run("\n", 1) >>, << Run("\n", 1), Run("w.", 1) >> }

Texts == { l \o << Run(h, 1) >> \o b \o t :
             l \in Leads, h \in Heads, b \in Bodies, t \in Tails }

MinCovValues == {0, 50, 100}

RelevanceValues == {0, 50, 100}

(***************************************************************************)
(* SpecTokens: rules built from keyword arguments over the sample texts,   *)
(* then tokenized and scored.                                              *)
(***************************************************************************)
InitTokens ==
    /\ \E fp \in BOOLEAN, neg \in BOOLEAN, mc \in MinCovValues,
          rel \in RelevanceValues, hsr \in BOOLEAN, txt \in Texts :
          Constructed("Rule", fp, neg, mc, rel, hsr, txt, 0, 0, 0, 0)
    /\ LoadIdle
    /\ CorpusIdle

NextTokens == CallTokens \/ CallComputeRelevance

SpecTokens == InitTokens /\ [][NextTokens]_vars

Scored == op \in {"tokens", "compute_relevance"}

\* C1: a rule without stored relevance that is neither false positive nor
\* negative has, once compute_relevance has run, relevance 100 when
\* length >= 18 and min(100, floor(length * 100 / 18)) when length < 18, and
\* no shorter rule of the same kind would have got a larger relevance.
C1_Relevance ==
    (Scored /\ ~ has_stored_relevance /\ ~ is_false_positive /\ ~ is_negative)
        => /\ length >= 18 => relevance = 100
           /\ (0 <= length /\ length < 18)
                 => relevance = Min(100, (length * 100) \div 18)
           /\ \A l \in 0..length :
                 (IF l >= 18 THEN 100 ELSE Min(100, (l * 100) \div 18)) <= relevance

C1_Witness ==
    /\ op = "tokens" /\ ~ has_stored_relevance
    /\ ~ is_false_positive /\ ~ is_negative
    /\ length = 9 /\ relevance = 50

RECURSIVE Offset(_, _)
Offset(t, i) == IF i <= 1 THEN 0 ELSE Offset(t, i - 1) + Width(t[i - 1].ch) * t[i - 1].n

\* the text without the whitespace runs at its two ends
Stripped(t) ==
    LET body == { i \in 1..Len(t) : ~ IsSpace(t[i].ch) }
    IN IF body = {} THEN <<>>
       ELSE SubSeq(t, CHOOSE i \in body : \A j \in body : i <= j,
                      CHOOSE i \in body : \A j \in body : j <= i)

\* C5: when the stripped text starts with http://, https:// or ftp:// and no
\* newline is among its first 1000 characters, minimum_coverage is 100 after
\* tokens(), whatever it was before.
C5_BareUrl ==
    LET t == Stripped(text)
    IN (/\ op = "tokens"
        /\ t # <<>>
        /\ t[1].ch \in {"http://", "https://", "ftp://"}
        /\ \A i \in 1..Len(t) : t[i].ch = "\n" => Offset(t, i) >= 1000)
       => minimum_coverage = 100

C5_Witness ==
    /\ op = "tokens" /\ mc_before = 50 /\ minimum_coverage = 100
    /\ IsSpace(text[1].ch)
    /\ contains(strip(text), "\n")

(***************************************************************************)
(* SpecThresholds: rules of either class built with token statistics on    *)
(* both sides of every length the two cascades test, then asked for their  *)
(* thresholds and small() in every order.                                  *)
(***************************************************************************)
\* how far around each tested length the sample lengths reach
Spread == 1

Cuts == {3, 5, 10, 15, 20, 30, 200}

LengthValues == {0, 250} \cup { c + d : c \in Cuts, d \in (0 - Spread)..Spread }

HighValues(len) == { h \in {0, 2, 3, 4, len \div 2, len} : h <= len }

UniqueValues(len, hl) ==
    { u \in { << lenu, hu >> : lenu \in {len, (len + 1) \div 2},
                               hu \in {hl, (hl + 1) \div 2} } : u[2] <= u[1] }

PlainText == << Run("w.", 1) >>

InitThresholds ==
    /\ \E k \in {"Rule", "SpdxRule"}, mc \in MinCovValues, len \in LengthValues :
         \E hl \in HighValues(len) :
           \E u \in UniqueValues(len, hl) :
              Constructed(k, FALSE, FALSE, mc, 100, FALSE, PlainText,
                          len, hl, u[1], u[2])
    /\ LoadIdle
    /\ CorpusIdle

NextThresholds == CallThresholds \/ CallThresholdsUnique \/ CallSmall

SpecThresholds == InitThresholds /\ [][NextThresholds]_vars

\* C3 as stated: a rule whose minimum_coverage is 100 when its thresholds are
\* first requested gets min_high = high_length, min_len = length from
\* thresholds() and min_high = high_unique, min_len = length_unique from
\* thresholds_unique(), in either call order.
C3_FullCoverage ==
    mc_first = 100 =>
        /\ op = "thresholds"
             => ret[1].min_high = high_length /\ ret[1].min_len = length
        /\ op = "thresholds_unique"
             => ret[1].min_high = high_unique /\ ret[1].min_len = length_unique

\* C4: small() of a Rule is length < 15 or minimum_coverage = 100; small() of
\* an SpdxRule is false, and so is the small field of its Thresholds tuples.
C4_Small ==
    /\ (op = "small" /\ kind = "Rule")
          => (ret_small <=> (length < 15 \/ minimum_coverage = 100))
    /\ (op = "small" /\ kind = "SpdxRule") => ~ ret_small
    /\ kind = "SpdxRule" =>
          \A c \in {_thresholds, _thresholds_unique, ret} :
              c # <<>> => ~ c[1].small

C4_Witness ==
    /\ kind = "SpdxRule" /\ op = "small" /\ ~ ret_small
    /\ length < 15 /\ minimum_coverage = 100
    /\ _thresholds # <<>> /\ _thresholds_unique # <<>>

\* The overwrites of C7, one per step, on min_high (mh), min_len (ml) and
\* minimum_coverage (mc).
C7_Step(i, s, len, hl) ==
    CASE i = 1 -> IF len > 200
                  THEN [s EXCEPT !.mh = hl \div 10, !.ml = len \div 10]
                  ELSE [s EXCEPT !.mh = Min(hl, MIN_MATCH_HIGH_LENGTH),
                                 !.ml = MIN_MATCH_LENGTH]
      [] i = 2 -> IF len < 30 THEN [s EXCEPT !.ml = len \div 2] ELSE s
      [] i = 3 -> IF len < 10 THEN [mh |-> hl, ml |-> len, mc |-> 80] ELSE s
      [] i = 4 -> IF len < 3 THEN [mh |-> hl, ml |-> len, mc |-> 100] ELSE s
      [] i = 5 -> IF s.mc = 100 THEN [s EXCEPT !.mh = hl, !.ml = len] ELSE s

RECURSIVE C7_Steps(_, _, _, _)
C7_Steps(i, s, len, hl) ==
    IF i = 0 THEN s ELSE C7_Step(i, C7_Steps(i - 1, s, len, hl), len, hl)

\* C7: the first thresholds() call returns the min_high and min_len that the
\* five overwrites give when applied in order to the rule's length,
\* high_length and the minimum_coverage it had, and leaves minimum_coverage
\* as they leave it.
C7_Cascade ==
    (op = "thresholds" /\ ~ hit) =>
        LET s == C7_Steps(5, [mh |-> 0, ml |-> 0, mc |-> mc_before],
                          length, high_length)
        IN /\ ret[1].min_high = s.mh
           /\ ret[1].min_len = s.ml
           /\ minimum_coverage = s.mc

C7_Witness ==
    /\ op = "thresholds" /\ ~ hit
    /\ length = 9 /\ high_length = 4 /\ mc_before = 100
    /\ minimum_coverage = 80
    /\ ret[1].min_high = 4 /\ ret[1].min_len = 9

(***************************************************************************)
(* SpecCache: a rule whose statistics and minimum_coverage are assigned    *)
(* again, and whose cached tuples are cleared, between thresholds calls.   *)
(***************************************************************************)
\* << length, high_length, length_unique, high_unique >>
Profiles == { << 2, 1, 2, 1 >>, << 8, 4, 6, 3 >>, << 25, 10, 20, 8 >>,
              << 300, 120, 150, 60 >> }

CacheMinCovValues == {0, 50, 100}

InitCache ==
    /\ \E p \in Profiles, mc \in CacheMinCovValues :
          Constructed("Rule", FALSE, FALSE, mc, 100, FALSE, PlainText,
                      p[1], p[2], p[3], p[4])
    /\ LoadIdle
    /\ CorpusIdle

NextCache ==
    \/ CallThresholds
    \/ CallThresholdsUnique
    \/ \E p \in Profiles, mc \in CacheMinCovValues :
          SetAttrs(p[1], p[2], p[3], p[4], mc)
    \/ ClearThresholds
    \/ ClearThresholdsUnique

SpecCache == InitCache /\ [][NextCache]_vars

\* C6: a thresholds() or thresholds_unique() call that finds a cached tuple
\* returns that very tuple and changes nothing, whatever the statistics and
\* minimum_coverage are by then; a cached tuple changes only by being cleared;
\* and a call that finds no cached tuple returns and caches one made from the
\* current statistics.
C6_ComputedOnce ==
    [][ /\ (op' = "thresholds" /\ _thresholds # <<>>)
              => /\ ret' = _thresholds
                 /\ _thresholds' = _thresholds
                 /\ minimum_coverage' = minimum_coverage
        /\ (op' = "thresholds_unique" /\ _thresholds_unique # <<>>)
              => /\ ret' = _thresholds_unique
                 /\ _thresholds_unique' = _thresholds_unique
        /\ (_thresholds # <<>> /\ _thresholds' # _thresholds)
              => (op' = "clear" /\ _thresholds' = <<>>)
        /\ (_thresholds_unique # <<>> /\ _thresholds_unique' # _thresholds_unique)
              => (op' = "clear" /\ _thresholds_unique' = <<>>)
        /\ (op' = "thresholds" /\ _thresholds = <<>>)
              => /\ _thresholds' = ret'
                 /\ ret'[1].high_len = high_length
                 /\ ret'[1].low_len = low_length
                 /\ ret'[1].length = length
        /\ (op' = "thresholds_unique" /\ _thresholds_unique = <<>>)
              => /\ _thresholds_unique' = ret'
                 /\ ret'[1].high_len = high_unique
                 /\ ret'[1].low_len = low_unique
                 /\ ret'[1].length = length_unique
      ]_vars

\* a call returned the cached tuple although the length has changed since
C6_Witness ==
    /\ op = "thresholds" /\ hit
    /\ ret = _thresholds
    /\ ret[1].length # length
    /\ nset > 0

(***************************************************************************)
(* Metadata records.  `data` is the mapping saneyaml.load returns: every   *)
(* scalar a string, but for the booleans, written "True" and "False".      *)
(***************************************************************************)
\* the value of an attribute that holds None
None == "None"

truthy(v) == v # "" /\ v # "False" /\ v # None

Numerals == {"-5", "0", "50", "100", "150"}

\* float(v) and int(v) of a string: the number it spells; a string that
\* spells none makes them raise ValueError
is_number(v) == v \in Numerals

to_number(v) ==
    CASE v = "-5"  -> 0 - 5
      [] v = "0"   -> 0
      [] v = "50"  -> 50
      [] v = "100" -> 100
      [] v = "150" -> 150

\* data.get(k, default) for string values
get(d, k, default) == IF k \in DOMAIN d THEN d[k] ELSE default

\* attr.fields_dict(Rule)
Rule_fields ==
    { "rid", "identifier", "license_expression", "license_expression_object",
      "is_license_text", "is_license_notice", "is_license_reference",
      "is_license_tag", "is_false_positive", "is_negative", "minimum_coverage",
      "only_known_words", "relevance", "has_stored_relevance",
      "referenced_filenames", "notes", "is_license", "data_file", "text_file",
      "stored_text", "length", "high_length", "low_length", "_thresholds",
      "high_unique", "low_unique", "length_unique", "_thresholds_unique" }

\* the slots of License: its attr.ib attributes
License_fields ==
    { "key", "src_dir", "is_deprecated", "language", "short_name", "name",
      "category", "owner", "homepage_url", "notes", "is_exception",
      "spdx_license_key", "other_spdx_license_keys", "text_urls", "osi_url",
      "faq_url", "other_urls", "key_aliases", "minimum_coverage", "relevance",
      "standard_notice", "data_file", "text_file" }

(***************************************************************************)
(* Rule.load, as Rule.__attrs_post_init__ calls it                         *)
(***************************************************************************)
unknown_attributes_ignored(d) == {}

unknown_attributes(d) == DOMAIN d \ Rule_fields

\* The outcome of load() on the mapping d for a rule whose relevance was rel
\* before: the error it raises, or "ok" and the attributes it has assigned.
Rule_load(d, rel) ==
    LET license_expression == get(d, "license_expression", "")
        neg == truthy(get(d, "is_negative", "False"))
        fp == truthy(get(d, "is_false_positive", "False"))
        stored == "relevance" \in DOMAIN d
        relv == IF stored /\ is_number(d["relevance"])
                THEN to_number(d["relevance"]) ELSE rel
        mcs == get(d, "minimum_coverage", "0")
        notes == get(d, "notes", "")
        res(e) == [result |-> e, is_negative |-> neg, is_false_positive |-> fp,
                   license_expression |-> license_expression,
                   has_stored_relevance |-> stored, relevance |-> relv,
                   minimum_coverage |-> IF is_number(mcs) THEN to_number(mcs) ELSE 0]
    IN IF unknown_attributes(d) # {} THEN res("unknown attributes")
       ELSE IF ~ truthy(license_expression) /\ ~ (neg \/ fp)
            THEN res("missing license_expression")
       ELSE IF stored /\ ~ is_number(d["relevance"]) THEN res("ValueError")
       ELSE IF stored /\ ~ (0 < relv /\ relv <= 100) THEN res("invalid relevance")
       ELSE IF ~ is_number(mcs) THEN res("ValueError")
       ELSE IF ~ (0 <= relv /\ relv <= 100) THEN res("invalid minimum_coverage")
       ELSE IF ~ truthy(notes) /\ (neg \/ fp) THEN res("missing notes")
       ELSE res("ok")

\* Rule(data_file=..., text_file=...) as load_rules builds it: load(), then
\* the rest of __attrs_post_init__.  An exception leaves no Rule.
ConstructRule ==
    /\ op = "constructing"
    /\ LET r == Rule_load(data, relevance)
       IN /\ loaded' = [cls |-> "Rule", result |-> r.result]
          /\ IF r.result = "ok"
             THEN /\ op' = "new"
                  /\ is_negative' = r.is_negative
                  /\ is_false_positive' = r.is_false_positive
                  /\ relevance' = r.relevance
                  /\ has_stored_relevance' =
                        post_init_has_stored_relevance(kind, r.has_stored_relevance,
                                                       r.relevance)
                  /\ minimum_coverage' = r.minimum_coverage
             ELSE /\ op' = "failed"
                  /\ UNCHANGED << is_negative, is_false_positive, relevance,
                                  has_stored_relevance, minimum_coverage >>
    /\ mc_before' = minimum_coverage
    /\ UNCHANGED << kind, text, _thresholds, _thresholds_unique, ret, ret_small,
                    hit, mc_first, nset, data, lic >>
    /\ UNCHANGED stat_vars
    /\ UNCHANGED corpus_vars

(***************************************************************************)
(* License.load, as License.__attrs_post_init__ calls it                   *)
(***************************************************************************)
numeric_keys == {"minimum_coverage", "relevance"}

\* setattr(self, k, v) on a slots class raises AttributeError unless k is a slot
setattr_ok(fields, k) == k \in fields

\* the keys of d on which the loop body of License.load raises
License_load_raising(d, key) ==
    { k \in DOMAIN d :
        \/ k \in numeric_keys /\ ~ is_number(d[k])
        \/ k = "key" /\ d[k] # key
        \/ ~ setattr_ok(License_fields, k) }

\* License(key, src_dir) where <key>.yml exists: load() binds every item of
\* data, and any exception is printed and raised again
LoadLicense ==
    /\ op = "constructing"
    /\ loaded = NotLoaded
    /\ IF License_load_raising(data, lic.key) # {}
       THEN /\ loaded' = [cls |-> "License", result |-> "error"]
            /\ UNCHANGED lic
       ELSE /\ loaded' = [cls |-> "License", result |-> "ok"]
            /\ lic' = [ key |-> lic.key,
                        set |-> [k \in DOMAIN data \ numeric_keys |-> data[k]],
                        minimum_coverage |->
                            IF "minimum_coverage" \in DOMAIN data
                            THEN to_number(data["minimum_coverage"])
                            ELSE lic.minimum_coverage,
                        relevance |->
                            IF "relevance" \in DOMAIN data
                            THEN to_number(data["relevance"])
                            ELSE lic.relevance ]
    /\ op' = "license"
    /\ UNCHANGED << kind, is_false_positive, is_negative, minimum_coverage,
                    relevance, has_stored_relevance, text, _thresholds,
                    _thresholds_unique, ret, ret_small, hit, mc_first,
                    mc_before, nset, data >>
    /\ UNCHANGED stat_vars
    /\ UNCHANGED corpus_vars

(***************************************************************************)
(* SpecLoad: one metadata file, read as the data of a Rule or of a License.*)
(***************************************************************************)
Absent == "<absent>"

\* the mapping that holds the chosen value of every key but the absent ones
Record(choice) ==
    [k \in { k \in DOMAIN choice : choice[k] # Absent } |-> choice[k]]

Flags == {Absent, "True", "False"}

NumberValues == {Absent, "n/a"} \cup Numerals

InitLoad ==
    /\ \E le \in {Absent, "mit"}, neg \in Flags, fp \in {Absent, "True"},
          rel \in NumberValues, mc \in NumberValues, notes \in {Absent, "why"},
          len \in {Absent, "7"}, foo \in {Absent, "x"}, sn \in {Absent, "MIT"},
          key \in {Absent, "mit", "gpl"} :
          data = Record( ("license_expression" :> le) @@ ("is_negative" :> neg)
                         @@ ("is_false_positive" :> fp) @@ ("relevance" :> rel)
                         @@ ("minimum_coverage" :> mc) @@ ("notes" :> notes)
                         @@ ("length" :> len) @@ ("foo" :> foo)
                         @@ ("short_name" :> sn) @@ ("key" :> key) )
    /\ loaded = NotLoaded
    /\ lic = NewLicense("mit")
    /\ CorpusIdle
    /\ kind = "Rule"
    /\ is_false_positive = FALSE
    /\ is_negative = FALSE
    /\ minimum_coverage = 0
    /\ relevance = 100
    /\ has_stored_relevance = FALSE
    /\ text = PlainText
    /\ length = 0 /\ high_length = 0 /\ low_length = 0
    /\ length_unique = 0 /\ high_unique = 0 /\ low_unique = 0
    /\ _thresholds = <<>> /\ _thresholds_unique = <<>>
    /\ op = "constructing"
    /\ ret = <<>> /\ ret_small = FALSE /\ hit = FALSE
    /\ mc_first = -1 /\ mc_before = 0 /\ nset = 0

NextLoad == ConstructRule \/ LoadLicense \/ CallTokens

SpecLoad == InitLoad /\ [][NextLoad]_vars

\* the keys of data whose value License.load can bind: a License field, a
\* number where a number is due, and the key the file is named after
C8_Bindable(k) ==
    /\ k \in License_fields
    /\ k \in {"minimum_coverage", "relevance"} => data[k] \in Numerals
    /\ k = "key" => data[k] = lic.key

\* C8: License.load of a mapping with keys that are no License field succeeds,
\* binds the License fields of the mapping and nothing else.
C8_UnknownIgnored ==
    (/\ loaded.cls = "License"
     /\ DOMAIN data \ License_fields # {}
     /\ \A k \in DOMAIN data \cap License_fields : C8_Bindable(k))
       => /\ loaded.result = "ok"
          /\ DOMAIN lic.set = (DOMAIN data \cap License_fields) \ numeric_keys

C10_RangeChecked ==
    (loaded.cls = "Rule" /\ loaded.result = "ok")
        => /\ 0 <= relevance /\ relevance <= 100
           /\ 0 <= minimum_coverage /\ minimum_coverage <= 100

(***************************************************************************)
(* License.to_dict and License.dump.  A License object is [key, set,       *)
(* minimum_coverage, relevance]: `set` holds the attributes that were      *)
(* given a value, every other attribute has its default.                   *)
(***************************************************************************)
\* the attr.ib defaults of License
License_default(k) ==
    CASE k = "language" -> "en"
      [] k \in {"is_deprecated", "is_exception"} -> "False"
      [] OTHER -> None

\* getattr(x, k) for an attribute that holds a string, a boolean or None
License_attr(x, k) ==
    IF k \in DOMAIN x.set THEN x.set[k] ELSE License_default(k)

\* the filter of to_dict on an attribute that holds a string, a boolean or
\* None: false, empties, paths and the English language are not dumped
dict_fields_english_only(k, v) ==
    /\ truthy(v)
    /\ k \notin {"data_file", "text_file", "src_dir", "language"}

dict_fields(k, v) ==
    /\ truthy(v)
    /\ k \notin {"data_file", "text_file", "src_dir"}
    /\ ~ (k = "language" /\ v = "en")

\* the same filter on an attribute that holds a number
dict_fields_number(k, n) ==
    /\ n # 0
    /\ ~ (k = "relevance" /\ n = 100)

to_dict(x) ==
    LET attrs == x.set @@ ("key" :> x.key)
        kept == { k \in DOMAIN attrs : dict_fields(k, attrs[k]) }
        nums == { k \in numeric_keys : dict_fields_number(k, x[k]) }
    IN  [k \in kept \cup nums |-> IF k \in nums THEN x[k] ELSE attrs[k]]

\* how the YAML codec writes a number: the string that spells it
str(n) == CHOOSE v \in Numerals : to_number(v) = n

\* saneyaml.load(saneyaml.dump(d)): the numbers come back as strings
saneyaml(d) ==
    [k \in DOMAIN d |-> IF k \in numeric_keys THEN str(d[k]) ELSE d[k]]

\* dump(): <key>.yml is written from to_dict()
DumpLicense ==
    /\ op = "constructing"
    /\ loaded = NotLoaded
    /\ data = NoData
    /\ dumped.key # ""
    /\ data' = saneyaml(to_dict(dumped))
    /\ UNCHANGED << kind, is_false_positive, is_negative, minimum_coverage,
                    relevance, has_stored_relevance, text, _thresholds,
                    _thresholds_unique, op, ret, ret_small, hit, mc_first,
                    mc_before, nset, loaded, lic, dumped, licenses, validated >>
    /\ UNCHANGED stat_vars
    /\ UNCHANGED loader_vars

\* License(key, src_dir): load() runs when <key>.yml exists
LoadDumped == data # NoData /\ LoadLicense

\* no Rule is there: the rule attributes are at rest
NoRule ==
    /\ kind = "Rule"
    /\ is_false_positive = FALSE
    /\ is_negative = FALSE
    /\ minimum_coverage = 0
    /\ relevance = 100
    /\ has_stored_relevance = FALSE
    /\ text = PlainText
    /\ length = 0 /\ high_length = 0 /\ low_length = 0
    /\ length_unique = 0 /\ high_unique = 0 /\ low_unique = 0
    /\ _thresholds = <<>> /\ _thresholds_unique = <<>>
    /\ op = "constructing"
    /\ ret = <<>> /\ ret_small = FALSE /\ hit = FALSE
    /\ mc_first = -1 /\ mc_before = 0 /\ nset = 0

(***************************************************************************)
(* SpecRoundTrip: a License is dumped, then a License of the same key is   *)
(* constructed in the same directory.                                      *)
(***************************************************************************)
LicenseNumbers == {0, 50, 100}

InitRoundTrip ==
    /\ \E sn \in {Absent, None, "", "MIT"}, lang \in {Absent, "en", "fr", ""},
          dep \in {Absent, "True", "False"}, notes \in {Absent, "why"},
          mc \in LicenseNumbers, rel \in LicenseNumbers :
          dumped = [ key |-> "mit",
                     set |-> Record( ("short_name" :> sn) @@ ("language" :> lang)
                                     @@ ("is_deprecated" :> dep)
                                     @@ ("notes" :> notes) ),
                     minimum_coverage |-> mc,
                     relevance |-> rel ]
    /\ data = NoData
    /\ loaded = NotLoaded
    /\ lic = NewLicense("mit")
    /\ NoRule
    /\ licenses = NoData
    /\ validated = <<>>
    /\ LoaderIdle

NextRoundTrip == DumpLicense \/ LoadDumped

SpecRoundTrip == InitRoundTrip /\ [][NextRoundTrip]_vars

\* the License attributes that hold a string, a boolean or None
C11_Strings ==
    License_fields \ ({"key", "src_dir", "data_file", "text_file"} \cup numeric_keys)

CATEGORIES ==
    { "Copyleft", "Copyleft Limited", "Patent License", "Permissive",
      "Public Domain", "Commercial", "Free Restricted", "Proprietary Free",
      "Unstated License" }

\* tuple(query_tokenizer(text, lower=True)) of the sample license texts: the
\* words in lower case, without whitespace and punctuation
query_tokens(t) ==
    CASE t = "MIT License"  -> << "mit", "license" >>
      [] t = "mit license." -> << "mit", "license" >>
      [] t = "GPL"          -> << "gpl" >>
      [] OTHER              -> << >>

\* the number of times x is in the list seq
Count(seq, x) == Cardinality({ i \in DOMAIN seq : seq[i] = x })

\* list(lic.spdx_keys()): what lines 385-388 append the license key under
spdx_keys(l) ==
    (IF truthy(l.spdx_license_key) THEN << l.spdx_license_key >> ELSE << >>)
        \o l.other_spdx_license_keys

\* by_spdx_key[k]: each license key, as many times as it was appended
by_spdx_key(ls, k) ==
    [ key \in { key \in DOMAIN ls : Count(spdx_keys(ls[key]), k) > 0 }
        |-> Count(spdx_keys(ls[key]), k) ]

RECURSIVE len(_)
\* len() of a list held as above
len(l) ==
    IF DOMAIN l = {} THEN 0
    ELSE LET key == CHOOSE key \in DOMAIN l : TRUE
         IN  l[key] + len([x \in DOMAIN l \ {key} |-> l[x]])

\* `len(v) > 1` of line 391
used_multiple_times(l) == len(l) > 1

\* the keys of the licenses filed under the value v of the attribute a
by_attr(ls, a, v) == { key \in DOMAIN ls : ls[key][a] = v }

by_text(ls, toks) == { key \in DOMAIN ls : query_tokens(ls[key].text) = toks }

\* 'Duplicate ...:' + v + ' in licenses:' + ... raises TypeError when v is None
concatenates(v) == v # None

\* the messages of errors[key]
local_errors(l) ==
    {   m \in { "No short name", "No name", "No category",
                "Unknown license category", "No owner" } :
        \/ m = "No short name" /\ ~ truthy(l.short_name)
        \/ m = "No name" /\ ~ truthy(l.name)
        \/ m = "No category" /\ ~ truthy(l.category)
        \/ m = "Unknown license category"
              /\ truthy(l.category) /\ l.category \notin CATEGORIES
        \/ m = "No owner" /\ ~ truthy(l.owner) }

\* validate(licenses): the exception it raises, or "" and the maps it returns.
\* GLOBAL holds [msg, of, keys]: the message, what is duplicated and the
\* license keys the message lists.
validate(ls) ==
    LET all_spdx == UNION { { spdx_keys(ls[key])[i] : i \in DOMAIN spdx_keys(ls[key]) }
                            : key \in DOMAIN ls }
        all_toks == { query_tokens(ls[key].text) : key \in DOMAIN ls } \ { << >> }
        short_names == { ls[key].short_name : key \in DOMAIN ls }
        names == { ls[key].name : key \in DOMAIN ls }
        dup_short == { v \in short_names : Cardinality(by_attr(ls, "short_name", v)) # 1 }
        dup_name == { v \in names : Cardinality(by_attr(ls, "name", v)) # 1 }
        global ==
            { [msg |-> "SPDX key used in multiple licenses", of |-> << k >>,
               keys |-> DOMAIN by_spdx_key(ls, k)]
                 : k \in { k \in all_spdx : used_multiple_times(by_spdx_key(ls, k)) } }
            \cup
            { [msg |-> "Duplicate texts in multiple licenses", of |-> toks,
               keys |-> by_text(ls, toks)]
                 : toks \in { toks \in all_toks : Cardinality(by_text(ls, toks)) > 1 } }
            \cup
            { [msg |-> "Duplicate short name", of |-> << v >>,
               keys |-> by_attr(ls, "short_name", v)] : v \in dup_short }
            \cup
            { [msg |-> "Duplicate name", of |-> << v >>,
               keys |-> by_attr(ls, "name", v)] : v \in dup_name }
    IN  IF \E v \in dup_short \cup dup_name : ~ concatenates(v)
        THEN [raised |-> "TypeError", errors |-> NoData, GLOBAL |-> {},
              infos |-> NoData]
        ELSE [raised |-> "",
              errors |-> [key \in DOMAIN ls |-> local_errors(ls[key])],
              GLOBAL |-> global,
              infos |-> [key \in DOMAIN ls |->
                            IF query_tokens(ls[key].text) = << >>
                            THEN {"No license text"} ELSE {}]]

CallValidate ==
    /\ validated = << >>
    /\ DOMAIN licenses # {}
    /\ validated' = << validate(licenses) >>
    /\ UNCHANGED << kind, is_false_positive, is_negative, minimum_coverage,
                    relevance, has_stored_relevance, text, _thresholds,
                    _thresholds_unique, op, ret, ret_small, hit, mc_first,
                    mc_before, nset, data, loaded, lic, dumped, licenses >>
    /\ UNCHANGED stat_vars
    /\ UNCHANGED loader_vars

(***************************************************************************)
(* SpecValidate: validate() on the mappings of two licenses, "a" and "b".  *)
(***************************************************************************)
\* (category, owner) of a sample license
Owned == { << None, None >>, << "Permissive", "nexB" >>, << "Bogus", "nexB" >> }

SampleLicenses ==
    { [short_name |-> sn, name |-> n, category |-> co[1], owner |-> co[2],
       text |-> t, spdx_license_key |-> sk, other_spdx_license_keys |-> osk] :
         sn \in {None, "MIT", "GPL"}, n \in {None, "MIT License"}, co \in Owned,
         t \in {"", "MIT License", "mit license.", "GPL"},
         sk \in {None, "MIT"}, osk \in { << >>, << "MIT" >>, << "X11", "X11" >> } }

InitValidate ==
    /\ \E a \in SampleLicenses, b \in SampleLicenses :
          licenses = ("a" :> a) @@ ("b" :> b)
    /\ validated = << >>
    /\ dumped = NewLicense("")
    /\ LoaderIdle
    /\ LoadIdle
    /\ NoRule

NextValidate == CallValidate

SpecValidate == InitValidate /\ [][NextValidate]_vars

\* C12: validate never raises, whatever the licenses of the mapping lack or
\* share, and returns its three maps.
C12_NeverRaises ==
    validated # << >> => validated[1].raised = ""

\* validate has returned its maps
Returned == validated # << >> /\ validated[1].raised = ""

\* the GLOBAL duplicate text errors that list the license key
C13_Errors(key) ==
    { e \in validated[1].GLOBAL :
        e.msg = "Duplicate texts in multiple licenses" /\ key \in e.keys }

C13_Tokens(key) == query_tokens(licenses[key].text)

\* C13: validate returns a GLOBAL error that names both keys whenever two
\* licenses of the mapping have the same non-empty normalized token sequence,
\* and no duplicate text error when the non-empty ones are pairwise distinct;
\* a license with an empty text gets the info 'No license text' and is in no
\* duplicate text error.
C13_DuplicateTexts ==
    validated # << >> =>
        \A a \in DOMAIN licenses :
            /\ \A b \in DOMAIN licenses \ {a} :
                  IF C13_Tokens(a) # << >> /\ C13_Tokens(a) = C13_Tokens(b)
                  THEN Returned /\ C13_Errors(a) \cap C13_Errors(b) # {}
                  ELSE C13_Errors(a) \cap C13_Errors(b) = {}
            /\ C13_Tokens(a) = << >>
                  => /\ Returned
                     /\ "No license text" \in validated[1].infos[a]
                     /\ C13_Errors(a) = {}

\* the licenses that claim the SPDX key k, as their spdx_license_key or in
\* their other_spdx_license_keys
C14_Claiming(k) ==
    { key \in DOMAIN licenses :
        \/ licenses[key].spdx_license_key = k
        \/ \E i \in DOMAIN licenses[key].other_spdx_license_keys :
              licenses[key].other_spdx_license_keys[i] = k }

\* C14: validate reports the GLOBAL error 'SPDX key used in multiple
\* licenses' for an SPDX key if and only if more than one license of the
\* mapping claims that key.
C14_SpdxKeys ==
    validated # << >> =>
        \A k \in {"MIT", "X11"} :
            (\E e \in validated[1].GLOBAL :
                e.msg = "SPDX key used in multiple licenses" /\ e.of = << k >>)
            <=> Cardinality(C14_Claiming(k)) > 1

(***************************************************************************)
(* The files of a directory.  A path is [base, ext, backup]: the base name *)
(* of the file, its extension and whether the name ends with '~'.  A       *)
(* directory maps each of its paths to the content of the file: the        *)
(* metadata mapping of a .yml file, the empty mapping otherwise.           *)
(***************************************************************************)
Path(base, ext) == [base |-> base, ext |-> ext, backup |-> FALSE]

\* f.endswith(ext)
endswith(f, ext) == IF ext = "~" THEN f.backup ELSE f.ext = ext /\ ~ f.backup

file_base_name(f) == f.base

\* exists(f) in the directory fs
exists(fs, f) == f \in DOMAIN fs

\* the sample base names, as sorted() orders them
Bases == << "GPL", "gpl", "mit", "my rule", "or" >>

rank(base) == CHOOSE i \in DOMAIN Bases : Bases[i] = base

\* the license the construction License(key, src_dir) returns when load()
\* on the mapping d of <key>.yml does not raise
License(key, d) ==
    [ key |-> key,
      set |-> [k \in DOMAIN d \ numeric_keys |-> d[k]],
      minimum_coverage |-> IF "minimum_coverage" \in DOMAIN d
                           THEN to_number(d["minimum_coverage"]) ELSE 0,
      relevance |-> IF "relevance" \in DOMAIN d
                    THEN to_number(d["relevance"]) ELSE 100 ]

(***************************************************************************)
(* load_licenses                                                           *)
(***************************************************************************)
\* a .yml file claims nothing but itself
used_files_without_texts(fs) == { f \in DOMAIN fs : endswith(f, ".yml") }

\* used_files: every .yml file and the <key>.LICENSE of each that exists
used_files(fs) ==
    LET ymls == { f \in DOMAIN fs : endswith(f, ".yml") }
    IN  ymls \cup { t \in { Path(file_base_name(f), ".LICENSE") : f \in ymls } :
                      exists(fs, t) }

\* the outcome of load_licenses: the exception it raises, or the mapping
load_licenses(fs, wd) ==
    LET ymls == { f \in DOMAIN fs : endswith(f, ".yml") }
        failing == { f \in ymls :
                       License_load_raising(fs[f], file_base_name(f)) # {} }
        first == CHOOSE f \in failing :
                    \A g \in failing : rank(f.base) <= rank(g.base)
        lics == [ key \in { file_base_name(f) : f \in ymls }
                    |-> License(key, fs[Path(key, ".yml")]) ]
        kept == { key \in DOMAIN lics :
                    wd \/ ~ truthy(License_attr(lics[key], "is_deprecated")) }
        dangling == DOMAIN fs \ used_files(fs)
    IN  IF failing # {}
        THEN [raised |-> << [type |-> "invalid license", files |-> {first}] >>,
              licenses |-> NoData]
        ELSE IF dangling # {}
        THEN [raised |-> << [type |-> "orphaned", files |-> dangling] >>,
              licenses |-> NoData]
        ELSE [raised |-> << >>, licenses |-> [key \in kept |-> lics[key]]]

CallLoadLicenses ==
    /\ pc = "load_licenses"
    /\ LET r == load_licenses(license_files, with_deprecated)
       IN  /\ raised' = r.raised
           /\ licenses' = r.licenses
           /\ pc' = IF r.raised = << >> THEN "licenses" ELSE "raised"
    /\ UNCHANGED << kind, is_false_positive, is_negative, minimum_coverage,
                    relevance, has_stored_relevance, text, _thresholds,
                    _thresholds_unique, op, ret, ret_small, hit, mc_first,
                    mc_before, nset, data, loaded, lic, dumped, validated,
                    license_files, with_deprecated >>
    /\ UNCHANGED stat_vars
    /\ UNCHANGED rules_vars

(***************************************************************************)
(* SpecLicenses: load_licenses on the directories made of the files of two *)
(* licenses and a stray file.                                              *)
(***************************************************************************)
\* there is no such file
NoFile == Absent :> ""

\* the sample contents of a license .yml file
LicenseData ==
    { NoFile, NoData, "short_name" :> "MIT", "is_deprecated" :> "True",
      "is_deprecated" :> "False", "foo" :> "x", "key" :> "bsd",
      "minimum_coverage" :> "n/a" }

\* the directory that holds the files chosen
Directory(choice) ==
    [f \in { f \in DOMAIN choice : choice[f] # NoFile } |-> choice[f]]

InitLicenses ==
    /\ \E mit \in LicenseData, gpl \in LicenseData,
          mit_text \in {NoFile, NoData}, gpl_text \in {NoFile, NoData},
          notes \in {NoFile, NoData} :
          license_files = Directory( (Path("mit", ".yml") :> mit)
                                     @@ (Path("mit", ".LICENSE") :> mit_text)
                                     @@ (Path("gpl", ".yml") :> gpl)
                                     @@ (Path("gpl", ".LICENSE") :> gpl_text)
                                     @@ (Path("notes", ".txt") :> notes) )
    /\ with_deprecated \in BOOLEAN
    /\ pc = "load_licenses"
    /\ raised = << >>
    /\ RulesIdle
    /\ licenses = NoData
    /\ validated = << >>
    /\ dumped = NewLicense("")
    /\ LoadIdle
    /\ NoRule

NextLicenses == CallLoadLicenses

SpecLicenses == InitLicenses /\ [][NextLicenses]_vars

\* the files that are neither a .yml file nor the existing <key>.LICENSE of
\* a .yml file
C15_Orphans ==
    { f \in DOMAIN license_files :
        /\ f.ext # ".yml"
        /\ ~ (f.ext = ".LICENSE" /\ Path(f.base, ".yml") \in DOMAIN license_files) }

\* the keys of the .yml files whose License is deprecated
C15_Deprecated ==
    { f.base : f \in { f \in DOMAIN license_files :
                         /\ f.ext = ".yml"
                         /\ "is_deprecated" \in DOMAIN license_files[f]
                         /\ license_files[f]["is_deprecated"] = "True" } }

C15_Keys == { f.base : f \in { f \in DOMAIN license_files : f.ext = ".yml" } }

\* the .yml files whose License cannot be constructed
C15_Invalid ==
    { f \in DOMAIN license_files :
        /\ f.ext = ".yml"
        /\ License_load_raising(license_files[f], f.base) # {} }

C15_Returns ==
    /\ pc = "licenses"
    /\ DOMAIN licenses =
          IF with_deprecated THEN C15_Keys ELSE C15_Keys \ C15_Deprecated

\* C15 as stated: load_licenses raises if and only if the directory holds a
\* file that is neither a .yml file nor the existing <key>.LICENSE of a .yml
\* file, and the message lists exactly those files; otherwise it returns
\* exactly the licenses that are not deprecated, or all with with_deprecated.
C15_Original ==
    pc # "load_licenses" =>
        IF C15_Orphans # {}
        THEN pc = "raised" /\ raised[1].files = C15_Orphans
        ELSE C15_Returns

\* C15 amended: load_licenses raises if and only if the construction of the
\* License of a .yml file raises or the directory holds such a file; when no
\* construction raises, the message lists exactly those files, the files of
\* a deprecated license counting as claimed; otherwise it returns exactly
\* the licenses that are not deprecated, or all with with_deprecated.
C15_Amended ==
    pc # "load_licenses" =>
        IF C15_Invalid # {}
        THEN pc = "raised" /\ raised[1].type = "invalid license"
        ELSE IF C15_Orphans # {}
        THEN /\ pc = "raised"
             /\ raised[1].type = "orphaned"
             /\ raised[1].files = C15_Orphans
        ELSE C15_Returns

\* a text without its .yml file and a stray file are listed; the text of the
\* deprecated license is not
C15_Witness ==
    /\ pc = "raised"
    /\ raised[1].files = { Path("mit", ".LICENSE"), Path("notes", ".txt") }
    /\ Path("gpl", ".LICENSE") \in DOMAIN license_files
    /\ C15_Deprecated = {"gpl"}

(***************************************************************************)
(* Rule(...) as load_rules and build_rules_from_licenses call it.          *)
(***************************************************************************)
\* the path of an attribute that holds None
NoPath == [base |-> "", ext |-> "", backup |-> FALSE]

\* licensing.parse(expression) of the sample expressions: "mit AND" has no
\* right operand and "or" is an operator without operands; they do not parse
parses(e) == e \notin {"mit AND", "or"}

\* licensing.license_keys(expression_object)
expression_keys(e) ==
    CASE e = "mit"         -> {"mit"}
      [] e = "gpl"         -> {"gpl"}
      [] e = "bsd"         -> {"bsd"}
      [] e = "mit AND gpl" -> {"mit", "gpl"}
      [] e = "mit AND bsd" -> {"mit", "bsd"}
      [] OTHER             -> {}

\* the test of __attrs_post_init__ on the text of the rule
has_text_checked_on_disk(fs, text_file, stored_text) ==
    (text_file # NoPath /\ exists(fs, text_file)) \/ truthy(stored_text)

has_text(fs, text_file, stored_text) ==
    text_file # NoPath \/ truthy(stored_text)

\* The outcome of Rule(data_file=..., text_file=..., stored_text=..., **d) in
\* the directory fs: d is the content of data_file when there is one, the
\* other keyword arguments when there is none.
Rule(fs, data_file, text_file, stored_text, d) ==
    LET r == Rule_load(d, 100)
        e == get(d, "license_expression", "")
        flag(k) == truthy(get(d, k, "False"))
    IN  [ result |-> IF ~ has_text(fs, text_file, stored_text)
                     THEN "Invalid rule without its corresponding text file"
                     ELSE IF data_file # NoPath /\ r.result # "ok" THEN r.result
                     ELSE IF truthy(e) /\ ~ parses(e)
                          THEN "Unable to parse License rule expression"
                     ELSE "ok",
          data_file |-> data_file,
          text_file |-> text_file,
          stored_text |-> stored_text,
          license_keys |-> IF truthy(e) THEN expression_keys(e) ELSE {},
          has_importance_flags |->
              \/ flag("is_license_text") \/ flag("is_license_notice")
              \/ flag("is_license_reference") \/ flag("is_license_tag"),
          is_negative |-> flag("is_negative"),
          is_false_positive |-> flag("is_false_positive") ]

\* Rule.text(): where the text comes from, or the exception raised
Rule_text(fs, r) ==
    IF r.text_file # NoPath /\ exists(fs, r.text_file) THEN "text_file"
    ELSE IF truthy(r.stored_text) THEN "stored_text"
    ELSE "Inconsistent rule text"

\* text() on a rule that load_rules has yielded
CallText ==
    /\ text_read = << >>
    /\ \E i \in DOMAIN rules :
          text_read' = << [ data_file |-> rules[i].data_file,
                            result |-> Rule_text(rule_files, rules[i]) ] >>
    /\ UNCHANGED << kind, is_false_positive, is_negative, minimum_coverage,
                    relevance, has_stored_relevance, text, _thresholds,
                    _thresholds_unique, op, ret, ret_small, hit, mc_first,
                    mc_before, nset, data, loaded, lic, dumped, licenses,
                    validated, license_files, with_deprecated, pc, raised,
                    rule_files, scan, rules, delivered >>
    /\ UNCHANGED stat_vars

(***************************************************************************)
(* load_rules, a generator: each step enumerates one file of the directory *)
(* in the order resource_iter gives them, which is any order.              *)
(***************************************************************************)
\* s.lower() of the sample names
lower_case(s) ==
    CASE s = "MIT"   -> "mit"
      [] s = "GPL"   -> "gpl"
      [] s = ".RULE" -> ".rule"
      [] OTHER       -> s

\* path.lower()
lower(f) == [base |-> lower_case(f.base), ext |-> lower_case(f.ext),
             backup |-> f.backup]

\* ' ' in base_name
has_space(base) == base = "my rule"

\* the local variables of load_rules when its loop begins
load_rules_locals(fs) ==
    [ todo |-> DOMAIN fs, seen_files |-> {}, processed_files |-> {},
      lower_case_files |-> {}, case_problems |-> {}, space_problems |-> {},
      model_errors |-> {} ]

unknown_files_forgotten(sc) == {}

unknown_files(sc) == sc.seen_files \ sc.processed_files

\* one iteration of the loop, the yield included
LoadRulesStep ==
    /\ pc = "load_rules"
    /\ \E data_file \in scan.todo :
          LET yml == endswith(data_file, ".yml")
              base_name == file_base_name(data_file)
              rule_file == Path(base_name, ".RULE")
              r == Rule(rule_files, data_file, rule_file, None,
                        rule_files[data_file])
              data_lower == lower(data_file)
              rule_lower == lower(rule_file)
              lowered == scan.lower_case_files \cup {data_lower}
          IN  /\ rules' = IF yml /\ r.result = "ok"
                          THEN Append(rules, r) ELSE rules
              /\ scan' =
                   [ todo |-> scan.todo \ {data_file},
                     space_problems |->
                         IF yml /\ has_space(base_name)
                         THEN scan.space_problems \cup {data_file}
                         ELSE scan.space_problems,
                     model_errors |->
                         IF yml /\ r.result # "ok"
                         THEN scan.model_errors
                                \cup {[file |-> data_file, error |-> r.result]}
                         ELSE scan.model_errors,
                     case_problems |->
                         IF yml
                         THEN scan.case_problems
                                \cup ({data_lower} \cap scan.lower_case_files)
                                \cup ({rule_lower} \cap lowered)
                         ELSE scan.case_problems,
                     lower_case_files |->
                         IF yml THEN lowered \cup {rule_lower}
                         ELSE scan.lower_case_files,
                     processed_files |->
                         IF yml
                         THEN scan.processed_files \cup {data_file, rule_file}
                         ELSE scan.processed_files,
                     seen_files |->
                         IF ~ endswith(data_file, "~")
                         THEN scan.seen_files \cup {data_file}
                         ELSE scan.seen_files ]
    /\ UNCHANGED << kind, is_false_positive, is_negative, minimum_coverage,
                    relevance, has_stored_relevance, text, _thresholds,
                    _thresholds_unique, op, ret, ret_small, hit, mc_first,
                    mc_before, nset, data, loaded, lic, dumped, licenses,
                    validated, license_files, with_deprecated, pc, raised,
                    rule_files, text_read, delivered >>
    /\ UNCHANGED stat_vars

\* after the loop: the aggregated exception, or the end of the generator
LoadRulesEnd ==
    /\ pc = "load_rules"
    /\ scan.todo = {}
    /\ IF \/ unknown_files(scan) # {} \/ scan.case_problems # {}
          \/ scan.model_errors # {} \/ scan.space_problems # {}
       THEN /\ raised' = << [ type |-> "Exception",
                              model_errors |-> scan.model_errors,
                              unknown_files |-> unknown_files(scan),
                              case_problems |-> scan.case_problems,
                              space_problems |-> scan.space_problems ] >>
            /\ pc' = "raised"
       ELSE /\ pc' = "rules"
            /\ UNCHANGED raised
    /\ UNCHANGED << kind, is_false_positive, is_negative, minimum_coverage,
                    relevance, has_stored_relevance, text, _thresholds,
                    _thresholds_unique, op, ret, ret_small, hit, mc_first,
                    mc_before, nset, data, loaded, lic, dumped, licenses,
                    validated, license_files, with_deprecated, rule_files,
                    scan, rules, text_read, delivered >>
    /\ UNCHANGED stat_vars

(***************************************************************************)
(* SpecRules: load_rules on the directories made of three rules, a stray   *)
(* file and a backup file; text() on the rules it yields.                  *)
(***************************************************************************)
RuleMit == ("license_expression" :> "mit") @@ ("is_license_text" :> "True")

RuleUnknownAttribute == ("license_expression" :> "mit") @@ ("foo" :> "x")

RuleUnparseable ==
    ("license_expression" :> "mit AND") @@ ("is_license_text" :> "True")

Backup(base, ext) == [base |-> base, ext |-> ext, backup |-> TRUE]

InitRules ==
    /\ \E mit \in {NoFile, RuleMit, RuleUnknownAttribute},
          mit_text \in {NoFile, NoData}, upper \in {NoFile, RuleMit},
          spaced \in {NoFile, RuleMit, RuleUnparseable},
          spaced_text \in {NoFile, NoData}, notes \in {NoFile, NoData},
          backup \in {NoFile, NoData} :
          rule_files = Directory( (Path("mit", ".yml") :> mit)
                                  @@ (Path("mit", ".RULE") :> mit_text)
                                  @@ (Path("MIT", ".yml") :> upper)
                                  @@ (Path("my rule", ".yml") :> spaced)
                                  @@ (Path("my rule", ".RULE") :> spaced_text)
                                  @@ (Path("notes", ".txt") :> notes)
                                  @@ (Backup("my rule", ".RULE") :> backup) )
    /\ scan = load_rules_locals(rule_files)
    /\ pc = "load_rules"
    /\ raised = << >>
    /\ rules = << >>
    /\ text_read = << >>
    /\ delivered = << >>
    /\ license_files = NoData
    /\ with_deprecated = FALSE
    /\ licenses = NoData
    /\ validated = << >>
    /\ dumped = NewLicense("")
    /\ LoadIdle
    /\ NoRule

NextRules == LoadRulesStep \/ LoadRulesEnd \/ CallText

SpecRules == InitRules /\ [][NextRules]_vars

C16_Ymls == { f \in DOMAIN rule_files : f.ext = ".yml" /\ ~ f.backup }

\* the .yml files whose Rule cannot be constructed
C16_Invalid ==
    { f \in C16_Ymls :
        Rule(rule_files, f, Path(f.base, ".RULE"), None, rule_files[f]).result # "ok" }

\* the files of fs that are neither a .yml file nor the .RULE file of one
C16_Orphans(fs) ==
    { f \in fs : f \notin C16_Ymls
                 /\ ~ (f.ext = ".RULE" /\ ~ f.backup
                       /\ Path(f.base, ".yml") \in DOMAIN rule_files) }

\* two files of fs whose paths differ by case only
C16_Collision(fs) == \E f \in fs, g \in fs : f # g /\ lower(f) = lower(g)

C16_Spaces(fs) == { f \in fs : f.base = "my rule" }

\* one of the four categories has an offending file among fs
C16_Offending(fs) ==
    \/ C16_Invalid # {} \/ C16_Orphans(fs) # {}
    \/ C16_Collision(fs) \/ C16_Spaces(fs) # {}

\* the message names the offending paths of every category, among fs
C16_Named(fs) ==
    /\ { e.file : e \in raised[1].model_errors } = C16_Invalid
    /\ raised[1].unknown_files = C16_Orphans(fs)
    /\ \A f \in C16_Ymls, g \in C16_Ymls :
          (f # g /\ lower(f) = lower(g)) => lower(f) \in raised[1].case_problems
    /\ C16_Spaces(C16_Ymls) \subseteq raised[1].space_problems

\* nothing is raised before the last file, and every .yml file that makes a
\* Rule has had its rule yielded
C16_Pass ==
    /\ pc = "raised" => scan.todo = {}
    /\ pc \in {"rules", "raised"}
          => { rules[i].data_file : i \in DOMAIN rules } = C16_Ymls \ C16_Invalid

C16_Seen == { f \in DOMAIN rule_files : ~ f.backup }

C20_UsableText ==
    text_read # << >> => text_read[1].result # "Inconsistent rule text"

(***************************************************************************)
(* check_rules_integrity: each step examines one rule of the list.         *)
(***************************************************************************)
\* the local variables of check_rules_integrity when its loop begins
check_locals == [ i |-> 1, invalid_rules |-> {}, rules_without_flags |-> {} ]

unknown_keys_none(rule, licenses_by_key) == {}

\* the keys of rule.license_keys() that are not in licenses_by_key
unknown_keys(rule, licenses_by_key) ==
    rule.license_keys \ DOMAIN licenses_by_key

without_flags_whatever_the_kind(rule) == ~ rule.has_importance_flags

\* the test of line 497
without_flags(rule) ==
    /\ ~ rule.has_importance_flags
    /\ ~ (rule.is_negative \/ rule.is_false_positive)

CheckStep ==
    /\ pc = "check_rules_integrity"
    /\ scan.i <= Len(rules)
    /\ LET rule == rules[scan.i]
           keys == unknown_keys(rule, licenses)
       IN  scan' = [ i |-> scan.i + 1,
                     invalid_rules |->
                        IF keys # {}
                        THEN scan.invalid_rules
                               \cup {[data_file |-> rule.data_file, keys |-> keys]}
                        ELSE scan.invalid_rules,
                     rules_without_flags |->
                        IF without_flags(rule)
                        THEN scan.rules_without_flags \cup {rule.data_file}
                        ELSE scan.rules_without_flags ]
    /\ UNCHANGED << kind, is_false_positive, is_negative, minimum_coverage,
                    relevance, has_stored_relevance, text, _thresholds,
                    _thresholds_unique, op, ret, ret_small, hit, mc_first,
                    mc_before, nset, data, loaded, lic, dumped, licenses,
                    validated, license_files, with_deprecated, pc, raised,
                    rule_files, rules, text_read, delivered >>
    /\ UNCHANGED stat_vars

\* after the loop: MissingLicenses, else MissingFlags, else the return
CheckEnd ==
    /\ pc = "check_rules_integrity"
    /\ scan.i > Len(rules)
    /\ IF scan.invalid_rules # {}
       THEN /\ raised' = << [ type |-> "MissingLicenses",
                              invalid_rules |-> scan.invalid_rules ] >>
            /\ pc' = "raised"
       ELSE IF scan.rules_without_flags # {}
       THEN /\ raised' = << [ type |-> "MissingFlags",
                              files |-> scan.rules_without_flags ] >>
            /\ pc' = "raised"
       ELSE /\ pc' = "checked"
            /\ UNCHANGED raised
    /\ UNCHANGED << kind, is_false_positive, is_negative, minimum_coverage,
                    relevance, has_stored_relevance, text, _thresholds,
                    _thresholds_unique, op, ret, ret_small, hit, mc_first,
                    mc_before, nset, data, loaded, lic, dumped, licenses,
                    validated, license_files, with_deprecated, rule_files,
                    scan, rules, text_read, delivered >>
    /\ UNCHANGED stat_vars

(***************************************************************************)
(* SpecIntegrity: check_rules_integrity on the lists of at most MaxRules   *)
(* rules that load_rules can yield, against three license mappings.        *)
(***************************************************************************)
MaxRules == 3

RuleNames == << "r1", "r2", "r3", "r4", "r5" >>

RuleNoFlags == "license_expression" :> "mit"

RuleBsd == ("license_expression" :> "bsd") @@ ("is_license_notice" :> "True")

RuleMitAndBsd == "license_expression" :> "mit AND bsd"

RuleNegative == ("is_negative" :> "True") @@ ("notes" :> "why")

RuleData == { RuleMit, RuleNoFlags, RuleBsd, RuleMitAndBsd, RuleNegative }

\* the rules load_rules yields for the files <name>.yml of content ds[i]
Yielded(ds) ==
    [ i \in DOMAIN ds |->
        Rule(NoData, Path(RuleNames[i], ".yml"), Path(RuleNames[i], ".RULE"),
             None, ds[i]) ]

InitIntegrity ==
    /\ \E n \in 1..MaxRules : \E ds \in [1..n -> RuleData] : rules = Yielded(ds)
    /\ \E keys \in { {"mit"}, {"mit", "gpl"}, {"mit", "bsd"} } :
          licenses = [key \in keys |-> License(key, NoData)]
    /\ scan = check_locals
    /\ pc = "check_rules_integrity"
    /\ raised = << >>
    /\ rule_files = NoData
    /\ text_read = << >>
    /\ delivered = << >>
    /\ license_files = NoData
    /\ with_deprecated = FALSE
    /\ validated = << >>
    /\ dumped = NewLicense("")
    /\ LoadIdle
    /\ NoRule

NextIntegrity == CheckStep \/ CheckEnd

SpecIntegrity == InitIntegrity /\ [][NextIntegrity]_vars

\* the keys of the rule at i that are not in licenses_by_key
C17_Unresolved(i) == rules[i].license_keys \ DOMAIN licenses

C17_Offending == { i \in DOMAIN rules : C17_Unresolved(i) # {} }

C17_Raised == pc = "raised" /\ raised[1].type = "MissingLicenses"

\* C17: check_rules_integrity raises MissingLicenses if and only if a rule
\* has a license key that is not in licenses_by_key, only after every rule
\* has been examined, and the message names the data file of every such rule
\* with each of its unresolved keys.
C17_MissingLicenses ==
    /\ pc = "raised" => scan.i > Len(rules)
    /\ pc \in {"checked", "raised"}
          => /\ C17_Raised <=> C17_Offending # {}
             /\ C17_Raised =>
                  raised[1].invalid_rules =
                     { [data_file |-> rules[i].data_file, keys |-> C17_Unresolved(i)]
                         : i \in C17_Offending }

\* two offending rules between good ones: one key of two unresolved in the
\* first, the only key in the second
C17_Witness ==
    /\ C17_Raised
    /\ Len(rules) = 3
    /\ C17_Offending = {1, 3}
    /\ rules[1].license_keys = {"mit", "bsd"}
    /\ raised[1].invalid_rules =
          { [data_file |-> Path("r1", ".yml"), keys |-> {"bsd"}],
            [data_file |-> Path("r3", ".yml"), keys |-> {"bsd"}] }

\* the rules with none of the four flags that are neither negative nor
\* false positive
C18_Flagless ==
    { i \in DOMAIN rules :
        /\ ~ rules[i].has_importance_flags
        /\ ~ rules[i].is_negative /\ ~ rules[i].is_false_positive }

C18_Raised ==
    /\ pc = "raised"
    /\ raised[1].type = "MissingFlags"
    /\ raised[1].files = { rules[i].data_file : i \in C18_Flagless }

\* C18 as stated: when a rule of the list has none of the four flags and is
\* neither negative nor false positive, check_rules_integrity raises
\* MissingFlags naming every such rule file, whatever the other rules are.
C18_Original ==
    (pc \in {"checked", "raised"} /\ C18_Flagless # {}) => C18_Raised

\* C18 amended: it does so when no rule of the list has a license key that
\* is not in licenses_by_key; when one has, MissingLicenses is raised
\* instead.
C18_Amended ==
    (pc \in {"checked", "raised"} /\ C18_Flagless # {})
        => IF C17_Offending = {} THEN C18_Raised ELSE C17_Raised

\* a rule without flags is named, the negative rule without flags is not
C18_Witness ==
    /\ C18_Raised
    /\ Len(rules) = 3
    /\ C18_Flagless = {2}
    /\ rules[1].is_negative /\ ~ rules[1].has_importance_flags
    /\ rules[3].has_importance_flags

(***************************************************************************)
(* get_rules and build_rules_from_licenses.  get_licenses_db is the cached *)
(* load_licenses of the license directory.  list(load_rules(...)) runs the *)
(* generator to its end; the chain returned is consumed one rule at a time.*)
(***************************************************************************)
\* licensedcode.cache.get_licenses_db on its first call: load_licenses with
\* its default arguments
get_licenses_db == with_deprecated = FALSE /\ CallLoadLicenses

\* rules = list(load_rules(rules_data_dir)) begins
GetRulesLoadRules ==
    /\ pc = "licenses"
    /\ pc' = "load_rules"
    /\ scan' = load_rules_locals(rule_files)
    /\ UNCHANGED << kind, is_false_positive, is_negative, minimum_coverage,
                    relevance, has_stored_relevance, text, _thresholds,
                    _thresholds_unique, op, ret, ret_small, hit, mc_first,
                    mc_before, nset, data, loaded, lic, dumped, licenses,
                    validated, license_files, with_deprecated, raised,
                    rule_files, rules, text_read, delivered >>
    /\ UNCHANGED stat_vars

\* check_rules_integrity(rules, licenses) begins
GetRulesCheck ==
    /\ pc = "rules"
    /\ pc' = "check_rules_integrity"
    /\ scan' = check_locals
    /\ UNCHANGED << kind, is_false_positive, is_negative, minimum_coverage,
                    relevance, has_stored_relevance, text, _thresholds,
                    _thresholds_unique, op, ret, ret_small, hit, mc_first,
                    mc_before, nset, data, loaded, lic, dumped, licenses,
                    validated, license_files, with_deprecated, raised,
                    rule_files, rules, text_read, delivered >>
    /\ UNCHANGED stat_vars

\* the chain of the two iterables is returned: no license has been looked at
GetRulesReturn ==
    /\ pc = "checked"
    /\ pc' = "chain"
    /\ scan' = [ todo |-> DOMAIN licenses, i |-> 1 ]
    /\ UNCHANGED << kind, is_false_positive, is_negative, minimum_coverage,
                    relevance, has_stored_relevance, text, _thresholds,
                    _thresholds_unique, op, ret, ret_small, hit, mc_first,
                    mc_before, nset, data, loaded, lic, dumped, licenses,
                    validated, license_files, with_deprecated, raised,
                    rule_files, rules, text_read, delivered >>
    /\ UNCHANGED stat_vars

\* the Rule build_rules_from_licenses makes of a license
Rule_from_license(fs, key) ==
    Rule(fs, NoPath, Path(key, ".LICENSE"), None,
         ("license_expression" :> key) @@ ("is_license" :> "True")
            @@ ("is_license_text" :> "True"))

chain_explicit_rules_first(sc) == "rules"

\* chain(licenses_as_rules, rules): the iterable the next rule comes from
chain(sc) == IF sc.todo # {} THEN "licenses_as_rules" ELSE "rules"

\* the consumer asks the chain for a rule: build_rules_from_licenses looks at
\* one more license, in the order of the mapping, which is any order; once it
\* is exhausted the explicit rules follow
Deliver ==
    /\ pc = "chain"
    /\ IF chain(scan) = "licenses_as_rules"
       THEN \E key \in scan.todo :
               LET r == Rule_from_license(license_files, key)
               IN  /\ scan' = [scan EXCEPT !.todo = scan.todo \ {key}]
                   /\ IF ~ exists(license_files, r.text_file)
                      THEN UNCHANGED << delivered, raised, pc >>
                      ELSE IF r.result = "ok"
                      THEN /\ delivered' = Append(delivered, r)
                           /\ UNCHANGED << raised, pc >>
                      ELSE /\ raised' = << [type |-> r.result, key |-> key] >>
                           /\ pc' = "raised"
                           /\ UNCHANGED delivered
       ELSE IF scan.i <= Len(rules)
       THEN /\ delivered' = Append(delivered, rules[scan.i])
            /\ scan' = [scan EXCEPT !.i = scan.i + 1]
            /\ UNCHANGED << raised, pc >>
       ELSE /\ pc' = "done"
            /\ UNCHANGED << delivered, raised, scan >>
    /\ UNCHANGED << kind, is_false_positive, is_negative, minimum_coverage,
                    relevance, has_stored_relevance, text, _thresholds,
                    _thresholds_unique, op, ret, ret_small, hit, mc_first,
                    mc_before, nset, data, loaded, lic, dumped, licenses,
                    validated, license_files, with_deprecated, rule_files,
                    rules, text_read >>
    /\ UNCHANGED stat_vars

(***************************************************************************)
(* SpecPipeline: get_rules on a license directory of up to three licenses  *)
(* and a rule directory of up to two rules.                                *)
(***************************************************************************)
InitPipeline ==
    /\ \E mit \in {NoData, "foo" :> "x"}, mit_text \in {NoFile, NoData},
          gpl \in {NoFile, NoData}, gpl_text \in {NoFile, NoData},
          op_key \in {NoFile, NoData}, op_text \in {NoFile, NoData},
          notes \in {NoFile, NoData} :
          license_files = Directory( (Path("mit", ".yml") :> mit)
                                     @@ (Path("mit", ".LICENSE") :> mit_text)
                                     @@ (Path("gpl", ".yml") :> gpl)
                                     @@ (Path("gpl", ".LICENSE") :> gpl_text)
                                     @@ (Path("or", ".yml") :> op_key)
                                     @@ (Path("or", ".LICENSE") :> op_text)
                                     @@ (Path("notes", ".txt") :> notes) )
    /\ \E mit \in {NoFile, RuleMit, RuleNoFlags, RuleBsd, RuleUnknownAttribute},
          mit_text \in {NoFile, NoData}, gpl \in {NoFile, RuleMit} :
          rule_files = Directory( (Path("mit", ".yml") :> mit)
                                  @@ (Path("mit", ".RULE") :> mit_text)
                                  @@ (Path("gpl", ".yml") :> gpl)
                                  @@ (Path("gpl", ".RULE") :>
                                        IF gpl = NoFile THEN NoFile ELSE NoData) )
    /\ with_deprecated = FALSE
    /\ pc = "load_licenses"
    /\ raised = << >>
    /\ scan = [todo |-> {}]
    /\ rules = << >>
    /\ text_read = << >>
    /\ delivered = << >>
    /\ licenses = NoData
    /\ validated = << >>
    /\ dumped = NewLicense("")
    /\ LoadIdle
    /\ NoRule

NextPipeline ==
    \/ get_licenses_db
    \/ GetRulesLoadRules \/ LoadRulesStep \/ LoadRulesEnd
    \/ GetRulesCheck \/ CheckStep \/ CheckEnd
    \/ GetRulesReturn \/ Deliver

SpecPipeline == InitPipeline /\ [][NextPipeline]_vars

\* the phases of get_rules, in order
C19_Phases ==
    << "load_licenses", "licenses", "load_rules", "rules",
       "check_rules_integrity", "checked", "chain", "done" >>

C19_Phase(p) == CHOOSE i \in DOMAIN C19_Phases : C19_Phases[i] = p

\* a phase is followed by the next one, or by the exception
C19_InOrder ==
    pc' # pc => \/ pc' = "raised"
                \/ C19_Phase(pc') = C19_Phase(pc) + 1

\* the keys of the licenses a rule is derived from: those with a text file
C19_Derived ==
    { key \in DOMAIN licenses : Path(key, ".LICENSE") \in DOMAIN license_files }

C19_IsDerived(r) == r.data_file = NoPath

\* a rule is synthesized only once the three phases before are over, and
\* every license-derived rule is delivered before the first explicit rule
C19_DerivedFirst ==
    /\ delivered # << >> => pc \in {"chain", "done", "raised"}
    /\ \A i \in DOMAIN delivered :
          ~ C19_IsDerived(delivered[i])
             => /\ \A j \in DOMAIN delivered : C19_IsDerived(delivered[j]) => j < i
                /\ { delivered[j].license_keys :
                       j \in { j \in DOMAIN delivered : C19_IsDerived(delivered[j]) } }
                     = { {key} : key \in C19_Derived }
    /\ pc = "done" => Len(delivered) = Cardinality(C19_Derived) + Len(rules)

\* C19 as stated: get_rules loads the licenses, loads the rules, checks
\* their integrity and synthesizes the license-derived rules, in this order;
\* an error of any phase surfaces before any rule is delivered; when no
\* phase fails, every license-derived rule is delivered before the first
\* explicit rule.
C19_Original ==
    /\ [][C19_InOrder]_vars
    /\ [](C19_DerivedFirst)
    /\ [](pc = "raised" => delivered = << >>)

\* C19 amended: an error of the first three phases surfaces before any rule
\* is delivered; the license-derived rules are synthesized one by one while
\* the consumer iterates, so an error of the synthesis surfaces after the
\* license-derived rules made before it have been delivered, and before any
\* explicit rule.
C19_Amended ==
    /\ [][C19_InOrder]_vars
    /\ [](C19_DerivedFirst)
    /\ [](pc = "raised" =>
            \/ delivered = << >>
            \/ /\ raised[1].type = "Unable to parse License rule expression"
               /\ \A i \in DOMAIN delivered : C19_IsDerived(delivered[i]))

\* the whole corpus has been delivered: two license-derived rules, then the
\* two explicit rules
C19_Witness ==
    /\ pc = "done"
    /\ Len(delivered) = 4
    /\ C19_IsDerived(delivered[1]) /\ C19_IsDerived(delivered[2])
    /\ ~ C19_IsDerived(delivered[3]) /\ ~ C19_IsDerived(delivered[4])
    /\ DOMAIN licenses = {"mit", "gpl"}

(***************************************************************************)
(* SpecCalls: rules built from keyword arguments over bare-URL and plain   *)
(* texts of every length the cascades test below SMALL_RULE and a little   *)
(* above, then tokenized and asked for their thresholds and small() in     *)
(* every order.                                                            *)
(***************************************************************************)
CallTexts == { << Run(h, 1) >> \o b : h \in {"http://", "w."},
                                      b \in { bb \in Bodies : Len(bb) = 0
                                                \/ bb[1].n <= MaxWords } }

InitCalls ==
    /\ \E k \in {"Rule", "SpdxRule"}, mc \in MinCovValues, txt \in CallTexts :
          Constructed(k, FALSE, FALSE, mc, 100, FALSE, txt, 0, 0, 0, 0)
    /\ LoadIdle
    /\ CorpusIdle

NextCalls == CallTokens \/ CallThresholds \/ CallThresholdsUnique \/ CallSmall

SpecCalls == InitCalls /\ [][NextCalls]_vars

\* C21 as stated: over every sequence of tokens(), thresholds() and
\* thresholds_unique() calls, a minimum_coverage of 100 is never lowered by
\* the call, so a bare-URL rule that tokens() forced to full coverage keeps
\* minimum_coverage 100 once its thresholds are computed.
C21_StaysFull ==
    (op \in {"tokens", "thresholds", "thresholds_unique"} /\ mc_before = 100)
        => minimum_coverage = 100

\* The tuple thresholds() returns when it is the first call on a rule built
\* with minimum_coverage mc: the cascade of lines 881-908 on that coverage.
C22_Thresholds(mc) ==
    LET long == length > 200
        mh0 == IF long THEN high_length \div 10
               ELSE Min(high_length, MIN_MATCH_HIGH_LENGTH)
        ml0 == IF length < 30 THEN length \div 2
               ELSE IF long THEN length \div 10 ELSE MIN_MATCH_LENGTH
        mc1 == IF length < 3 THEN 100 ELSE IF length < 10 THEN 80 ELSE mc
        full == length < 10 \/ mc1 = 100
    IN Thresholds(high_length, low_length, length, small(length, mc1),
                  IF full THEN high_length ELSE mh0,
                  IF full THEN length ELSE ml0)

\* The tuple thresholds_unique() returns when it is the first call on a rule
\* built with minimum_coverage mc: the cascade of lines 921-950.
C22_ThresholdsUnique(mc) ==
    LET highu == IF high_unique \div 2 # 0 THEN high_unique \div 2 ELSE high_unique
        mh == IF mc = 100 \/ length < 20 THEN high_unique
              ELSE IF length > 200 THEN high_unique \div 10
              ELSE Min(highu, MIN_MATCH_HIGH_LENGTH)
        ml == IF mc = 100 \/ length < 5 THEN length_unique
              ELSE IF length < 10
                   THEN (IF length_unique < 2 THEN length_unique
                         ELSE length_unique - 1)
              ELSE IF length < 20 THEN high_unique
              ELSE IF length > 200 THEN length \div 10
              ELSE MIN_MATCH_LENGTH
    IN Thresholds(high_unique, low_unique, length_unique, small(length, mc),
                  mh, ml)

\* thresholds() returns the same tuple whether thresholds_unique() ran before
\* it or not.
C22_ThresholdsCommutes ==
    op = "thresholds" => ret[1] = C22_Thresholds(mc_first)

\* thresholds_unique() returns the same tuple whether thresholds() ran before
\* it or not.
C22_UniqueCommutes ==
    op = "thresholds_unique" => ret[1] = C22_ThresholdsUnique(mc_first)

\* C22 as stated: with fixed token statistics the two cached threshold
\* computations commute; each returns the tuple it returns as the first call
\* on the rule, whichever of the two ran before.
C22_Commute == C22_ThresholdsCommutes /\ C22_UniqueCommutes

\* thresholds_unique() called before thresholds() returns its first-call tuple.
C22_UniqueFirst ==
    (op = "thresholds_unique" /\ _thresholds = <<>>)
        => ret[1] = C22_ThresholdsUnique(mc_first)

(***************************************************************************)
(* SpecRepeats: rules whose text repeats a few distinct tokens, so that    *)
(* length_unique is far below length, asked for their thresholds and       *)
(* small() in every order.                                                 *)
(***************************************************************************)
\* the statistics of a text of total occurrences, hl of them of high tokens:
\* lenu distinct tokens, hu of them high, no more of either sort than occur
RepeatValues(total, hl) ==
    { u \in { << lenu, hu >> : lenu \in {1, 2, 3, 4, total \div 10 - 1, total \div 10},
                               hu \in {0, 1, 2, hl} } :
        /\ 0 <= u[2] /\ u[2] <= u[1] /\ u[1] <= total
        /\ u[2] <= hl /\ u[1] - u[2] <= total - hl
        /\ (u[2] = 0) <=> (hl = 0)
        /\ (u[1] - u[2] = 0) <=> (total - hl = 0) }

InitRepeats ==
    /\ \E k \in {"Rule", "SpdxRule"}, mc \in MinCovValues, total \in LengthValues :
         \E hl \in HighValues(total) :
           \E u \in RepeatValues(total, hl) :
              Constructed(k, FALSE, FALSE, mc, 100, FALSE, PlainText,
                          total, hl, u[1], u[2])
    /\ LoadIdle
    /\ CorpusIdle

NextRepeats == CallThresholds \/ CallThresholdsUnique \/ CallSmall

SpecRepeats == InitRepeats /\ [][NextRepeats]_vars

\* the statistics C23 is about
C23_Statistics ==
    /\ 0 <= high_length /\ high_length <= length
    /\ 0 <= high_unique /\ high_unique <= length_unique
    /\ length_unique <= length

\* a Thresholds tuple whose two bars are within the counts it carries
C23_Within(t) ==
    /\ 0 <= t.min_high /\ t.min_high <= t.high_len
    /\ 0 <= t.min_len /\ t.min_len <= t.length

\* the tuples of thresholds() have both bars within their counts
C23_ThresholdsBars ==
    (C23_Statistics /\ op = "thresholds") => C23_Within(ret[1])

\* C23 as stated: with 0 <= high_length <= length and
\* 0 <= high_unique <= length_unique <= length, every tuple returned by
\* thresholds() or thresholds_unique() has 0 <= min_high <= high_len and
\* 0 <= min_len <= length, so a match of the whole rule meets both bars.
C23_Bars ==
    (C23_Statistics /\ op \in {"thresholds", "thresholds_unique"})
        => C23_Within(ret[1])

====
